---- MODULE Spec2Model ----
(***************************************************************************)
(* Model of supabase-core-python: the retry executor (utils/retry.py) and  *)
(* the pagination calculator (database/pagination.py).                     *)
(***************************************************************************)
EXTENDS Integers, Sequences, FiniteSets, TLC

VARIABLES inv, query, range_calls, page_out, collab_log, parse_in, parse_out,
          cache, ttl_seconds, now, cache_hist, cache_out,
          channels, client_log, sub_op,
          flask_request, flask_g, flask_clients, flask_out,
          django_request, django_clients, django_calls, django_out,
          cc_env, cc_args, cc_out,
          up_in, up_log, up_out,
          hp_in, hp_calls, hp_out

retryVars == <<inv>>
pageVars == <<query, range_calls, page_out, collab_log>>
parseVars == <<parse_in, parse_out>>
cacheVars == <<cache, ttl_seconds, now, cache_hist, cache_out>>
subVars == <<channels, client_log, sub_op>>
flaskVars == <<flask_request, flask_g, flask_clients, flask_out>>
djangoVars == <<django_request, django_clients, django_calls, django_out>>
createVars == <<cc_env, cc_args, cc_out>>
uploadVars == <<up_in, up_log, up_out>>
handleVars == <<hp_in, hp_calls, hp_out>>
vars == <<retryVars, pageVars, parseVars, cacheVars, subVars, flaskVars, djangoVars, createVars, uploadVars, handleVars>>

\* everything but the state of the with_retry invocations
notRetryVars == <<pageVars, parseVars, cacheVars, subVars, flaskVars, djangoVars, createVars, uploadVars, handleVars>>
\* everything but the state of paginate and its collaborator
notPageVars == <<retryVars, parseVars, cacheVars, subVars, flaskVars, djangoVars, createVars, uploadVars, handleVars>>
\* everything but the last parse_pagination_params call
notParseVars == <<retryVars, pageVars, cacheVars, subVars, flaskVars, djangoVars, createVars, uploadVars, handleVars>>
\* everything but the QueryCache instance and its clock
notCacheVars == <<retryVars, pageVars, parseVars, subVars, flaskVars, djangoVars, createVars, uploadVars, handleVars>>
\* everything but the SubscriptionManager and its client
notSubVars == <<retryVars, pageVars, parseVars, cacheVars, flaskVars, djangoVars, createVars, uploadVars, handleVars>>
\* everything but the Flask request context
notFlaskVars == <<retryVars, pageVars, parseVars, cacheVars, subVars, djangoVars, createVars, uploadVars, handleVars>>
\* everything but the Django request and the clients made for it
notDjangoVars == <<retryVars, pageVars, parseVars, cacheVars, subVars, flaskVars, createVars, uploadVars, handleVars>>
\* everything but the create_client call
notCreateVars == <<retryVars, pageVars, parseVars, cacheVars, subVars, flaskVars, djangoVars, uploadVars, handleVars>>
\* everything but the upload_file call and its storage client
notUploadVars == <<retryVars, pageVars, parseVars, cacheVars, subVars, flaskVars, djangoVars, createVars, handleVars>>
\* everything but the payload being handled
notHandleVars == <<retryVars, pageVars, parseVars, cacheVars, subVars, flaskVars, djangoVars, createVars, uploadVars>>

(***************************************************************************)
(* Bounds                                                                  *)
(***************************************************************************)
\* largest max_retries a caller passes explicitly
MaxRetries == 2
\* largest page number requested
MaxPage == 3
\* largest limit requested
MaxLimit == 2
\* largest number of rows the collaborator's filter set holds
MaxTotal == 7
\* number of paginate calls made in one behaviour
MaxPaginateCalls == 2
\* how far the parsed page/limit values spread around 0 and around the cap
ParseSpread == 2
\* latest reading of time.time(), in seconds after the cache was built
MaxClock == 3
\* number of channels the client creates in one behaviour
MaxChannels == 3
\* number of get_supabase_client calls made on one Django request
MaxDjangoCalls == 2
\* largest file size, in bytes
MaxFileSize == 2

(***************************************************************************)
(* Retry executor: utils/retry.py                                          *)
(***************************************************************************)
\* RetryConfig field defaults
DefaultMaxRetries == 3
DefaultDelayMs == 1000

\* concurrent invocations of with_retry
Procs == {1, 2}

\* an error raised by the operation either carries no `code` attribute
\* or carries one of these codes
NoCode == "no_code"
NonRetryableCodesDrop23503 == {"23505"}
NonRetryableCodes == {"23505", "23503"}
Codes == {NoCode, "PGRST116", "23505", "23503"}

\* what one call of the operation does: return, or raise an error with a code
Ok == "ok"
CallOutcomes == {Ok} \cup Codes

\* callers pass max_retries up to MaxRetries; RetryConfig() gives 3
CallsBound == (IF MaxRetries > DefaultMaxRetries THEN MaxRetries ELSE DefaultMaxRetries) + 1
DelayValues == {0, 100}

\* should_retry: None, or one of these predicates on the error
PredicateNames == {"always_true", "always_false", "uncoded_only"}
ShouldRetryValues == {"None"} \cup PredicateNames

\* should_retry(error) for a supplied predicate
CallPredicate(name, error) ==
    CASE name = "always_true" -> TRUE
      [] name = "always_false" -> FALSE
      [] name = "uncoded_only" -> error.code = NoCode

RetryConfig(max_retries, delay_ms, exponential_backoff, should_retry) ==
    [is_none |-> FALSE,
     max_retries |-> max_retries,
     delay_ms |-> delay_ms,
     exponential_backoff |-> exponential_backoff,
     should_retry |-> should_retry]

\* RetryConfig() with every field defaulted
DefaultRetryConfig == RetryConfig(DefaultMaxRetries, DefaultDelayMs, TRUE, "None")

\* config=None as passed by the caller (fields other than is_none are unused)
NoneConfig == [is_none |-> TRUE, max_retries |-> 0, delay_ms |-> 0,
               exponential_backoff |-> FALSE, should_retry |-> "None"]

Configs ==
    {RetryConfig(m, d, b, s) : m \in (-1)..MaxRetries, d \in DelayValues,
                               b \in BOOLEAN, s \in ShouldRetryValues}

\* the behaviour of the operation: what its k-th call does
Scripts == [1..CallsBound -> CallOutcomes]

\* exception objects; the error raised by the k-th call is its own object
OpError(code, call) == [msg |-> "operation error", code |-> code, call |-> call]
NoneError == [msg |-> "None", code |-> NoCode, call |-> 0]
GenericError == [msg |-> "Operation failed after retries", code |-> NoCode, call |-> 0]

\* results of with_retry
Pending == [kind |-> "pending", call |-> 0, error |-> NoneError]
Returned(call) == [kind |-> "return", call |-> call, error |-> NoneError]
Raised(error) == [kind |-> "raise", call |-> 0, error |-> error]

RECURSIVE Pow2(_)
Pow2(n) == IF n <= 0 THEN 1 ELSE 2 * Pow2(n - 1)

\* range(config.max_retries + 1) still yields `attempt`
InRangeOffByOne(config, attempt) == attempt < config.max_retries
InRange(config, attempt) == attempt < config.max_retries + 1

\* config.should_retry and not config.should_retry(error)
PredicateRejectsIgnored(config, error) == FALSE
PredicateRejectsNoNot(config, error) ==
    config.should_retry # "None" /\ CallPredicate(config.should_retry, error)
PredicateRejects(config, error) ==
    config.should_retry # "None" /\ ~CallPredicate(config.should_retry, error)

\* hasattr(error, "code") and error_code in ["23505", "23503"]
HasNonRetryableCodeAnyCode(error) == error.code # NoCode
HasNonRetryableCode(error) ==
    error.code # NoCode /\ error.code \in NonRetryableCodes

\* attempt < config.max_retries
MoreAttemptsRemainInclusive(config, attempt) == attempt <= config.max_retries
MoreAttemptsRemain(config, attempt) == attempt < config.max_retries

\* delay computed before time.sleep
ComputeDelayShifted(config, attempt) ==
    IF config.exponential_backoff
    THEN config.delay_ms * Pow2(attempt + 1)
    ELSE config.delay_ms
ComputeDelayConstant(config, attempt) == config.delay_ms
ComputeDelay(config, attempt) ==
    IF config.exponential_backoff
    THEN config.delay_ms * Pow2(attempt)
    ELSE config.delay_ms

\* last_error or Exception("Operation failed after retries")
\* (exception objects are truthy, None is not)
FinalErrorGeneric(last_error) == GenericError
FinalErrorLast(last_error) == last_error
FinalError(last_error) ==
    IF last_error = NoneError THEN GenericError ELSE last_error

\* a with_retry invocation right after the call, before its first statement
NewInvocation(config, script) ==
    [pc |-> "start", config |-> config, script |-> script,
     attempt |-> 0, calls |-> 0, sleeps |-> <<>>, delay |-> 0,
     last_error |-> NoneError, outcome |-> Pending]

\* a slot in which with_retry is not called
Idle == [NewInvocation(NoneConfig, [k \in 1..CallsBound |-> Ok]) EXCEPT !.pc = "idle"]

\* lines 54-57: resolve the default config, last_error = None
Begin(p) ==
    /\ inv[p].pc = "start"
    /\ inv' = [inv EXCEPT ![p].config =
                              IF inv[p].config.is_none THEN DefaultRetryConfig
                              ELSE inv[p].config,
                          ![p].last_error = NoneError,
                          ![p].pc = "loop"]
    /\ UNCHANGED notRetryVars

\* Attempt as it would be if last_error were a module-level variable that
\* every invocation writes
AttemptSharedLastError(p) ==
    /\ inv[p].pc = "loop"
    /\ InRange(inv[p].config, inv[p].attempt)
    /\ LET call == inv[p].calls + 1
           what == inv[p].script[call]
       IN  IF what = Ok
           THEN inv' = [inv EXCEPT ![p].calls = call,
                                   ![p].outcome = Returned(call),
                                   ![p].pc = "done"]
           ELSE inv' = [q \in Procs |->
                           IF q = p
                           THEN [inv[q] EXCEPT !.calls = call,
                                               !.last_error = OpError(what, call),
                                               !.pc = "except"]
                           ELSE [inv[q] EXCEPT !.last_error = OpError(what, call)]]
    /\ UNCHANGED notRetryVars

\* lines 59-63: next iteration of the loop, one call of the operation
Attempt(p) ==
    /\ inv[p].pc = "loop"
    /\ InRange(inv[p].config, inv[p].attempt)
    /\ LET call == inv[p].calls + 1
           what == inv[p].script[call]
       IN  IF what = Ok
           THEN inv' = [inv EXCEPT ![p].calls = call,
                                   ![p].outcome = Returned(call),
                                   ![p].pc = "done"]
           ELSE inv' = [inv EXCEPT ![p].calls = call,
                                   ![p].last_error = OpError(what, call),
                                   ![p].pc = "except"]
    /\ UNCHANGED notRetryVars

\* lines 65-81: the except block up to the sleep
Except(p) ==
    /\ inv[p].pc = "except"
    /\ LET config == inv[p].config
           error == inv[p].last_error
       IN  IF PredicateRejects(config, error)
           THEN inv' = [inv EXCEPT ![p].outcome = Raised(error), ![p].pc = "done"]
           ELSE IF HasNonRetryableCode(error)
           THEN inv' = [inv EXCEPT ![p].outcome = Raised(error), ![p].pc = "done"]
           ELSE IF MoreAttemptsRemain(config, inv[p].attempt)
           THEN inv' = [inv EXCEPT ![p].delay = ComputeDelay(config, inv[p].attempt),
                                   ![p].pc = "sleep"]
           ELSE inv' = [inv EXCEPT ![p].attempt = inv[p].attempt + 1,
                                   ![p].pc = "loop"]
    /\ UNCHANGED notRetryVars

\* lines 83-84: time.sleep(delay / 1000.0); continue
Sleep(p) ==
    /\ inv[p].pc = "sleep"
    /\ inv' = [inv EXCEPT ![p].sleeps = Append(inv[p].sleeps,
                                               [after_attempt |-> inv[p].attempt,
                                                delay_ms |-> inv[p].delay]),
                          ![p].attempt = inv[p].attempt + 1,
                          ![p].pc = "loop"]
    /\ UNCHANGED notRetryVars

\* lines 86-87: the loop is exhausted
Exhausted(p) ==
    /\ inv[p].pc = "loop"
    /\ ~InRange(inv[p].config, inv[p].attempt)
    /\ inv' = [inv EXCEPT ![p].outcome = Raised(FinalError(inv[p].last_error)),
                          ![p].pc = "done"]
    /\ UNCHANGED notRetryVars

with_retry(p) == Begin(p) \/ Attempt(p) \/ Except(p) \/ Sleep(p) \/ Exhausted(p)

(***************************************************************************)
(* Pagination calculator: database/pagination.py                           *)
(***************************************************************************)
\* page and limit values callers pass (PaginationParams is not validated)
Pages == 1..MaxPage
Limits == ((-1)..MaxLimit) \cup {10}
\* number of rows matching the query's filter set
Totals == (0..MaxTotal) \cup {25}

\* how the collaborator's response carries the count: the exact total,
\* a `count` attribute that is None, or no `count` attribute
CountAttrs == {"exact", "none", "missing"}

\* Python's // (floor division) for a non-zero divisor
PyFloorDiv(a, b) == IF b > 0 THEN a \div b ELSE (0 - a) \div (0 - b)

\* offset = (page - 1) * limit
OffsetFromPage(page, limit) == page * limit
Offset(page, limit) == (page - 1) * limit

\* (total + limit - 1) // limit
TotalPagesFloor(total, limit) == PyFloorDiv(total, limit)
TotalPages(total, limit) == PyFloorDiv(total + limit - 1, limit)

\* the rows of the inclusive range [from, to] that exist, by row index
RowsInRange(total, from, to) ==
    LET lo == IF from < 0 THEN 0 ELSE from
        hi == IF to > total - 1 THEN total - 1 ELSE to
    IN  [i \in 1..(hi - lo + 1) |-> lo + i - 1]

PageRaised(error, page, limit) ==
    [kind |-> "raise", error |-> error, data |-> <<>>, total |-> 0,
     page |-> page, limit |-> limit, total_pages |-> 0,
     has_next |-> FALSE, has_prev |-> FALSE]

PaginatedResponse(data, total, page, limit, total_pages, has_next, has_prev) ==
    [kind |-> "return", error |-> "", data |-> data, total |-> total,
     page |-> page, limit |-> limit, total_pages |-> total_pages,
     has_next |-> has_next, has_prev |-> has_prev]

\* DeriveResponse with has_next = page <= total_pages
DeriveResponseInclusiveNext(q, page, limit, from, to) ==
    LET rows == RowsInRange(q.total, from, to)
        data == IF q.data_attr THEN rows ELSE <<>>
        total == IF q.count_attr = "missing" THEN Len(data) ELSE q.total
        total_pages == TotalPages(total, limit)
    IN  IF q.count_attr = "none" THEN PageRaised("TypeError", page, limit)
        ELSE IF limit = 0 THEN PageRaised("ZeroDivisionError", page, limit)
        ELSE PaginatedResponse(data, total, page, limit, total_pages,
                               page <= total_pages, page > 1)
\* lines 67-81: what paginate derives from the collaborator's response
DeriveResponse(q, page, limit, from, to) ==
    LET rows == RowsInRange(q.total, from, to)
        data == IF q.data_attr THEN rows ELSE <<>>
        total == IF q.count_attr = "missing" THEN Len(data) ELSE q.total
        total_pages == TotalPages(total, limit)
    IN  IF q.count_attr = "none" THEN PageRaised("TypeError", page, limit)
        ELSE IF limit = 0 THEN PageRaised("ZeroDivisionError", page, limit)
        ELSE PaginatedResponse(data, total, page, limit, total_pages,
                               page < total_pages, page > 1)

\* paginate as it would be with a result cache keyed by the request
paginateCaching(page, limit, fails) ==
    /\ Len(page_out) < MaxPaginateCalls
    /\ LET offset == Offset(page, limit)
           from == offset
           to == offset + limit - 1
           hits == {i \in 1..Len(page_out) :
                       /\ page_out[i].kind = "return"
                       /\ page_out[i].page = page /\ page_out[i].limit = limit}
       IN  IF hits # {}
           THEN /\ page_out' = Append(page_out, page_out[CHOOSE i \in hits : TRUE])
                /\ UNCHANGED <<range_calls, collab_log>>
           ELSE /\ range_calls' = Append(range_calls, [from |-> from, to |-> to])
                /\ collab_log' = Append(collab_log, IF fails THEN "raise" ELSE "return")
                /\ page_out' = Append(page_out,
                       IF fails THEN PageRaised("collaborator error", page, limit)
                       ELSE DeriveResponse(query, page, limit, from, to))
    /\ UNCHANGED <<query, notPageVars>>

\* paginate(query, PaginationParams(page, limit)); `fails` is whether the
\* collaborator's range(...).execute() raises
paginate(page, limit, fails) ==
    /\ Len(page_out) < MaxPaginateCalls
    /\ LET offset == Offset(page, limit)
           from == offset
           to == offset + limit - 1
       IN  /\ range_calls' = Append(range_calls, [from |-> from, to |-> to])
           /\ collab_log' = Append(collab_log, IF fails THEN "raise" ELSE "return")
           /\ page_out' = Append(page_out,
                  IF fails THEN PageRaised("collaborator error", page, limit)
                  ELSE DeriveResponse(query, page, limit, from, to))
    /\ UNCHANGED <<query, notPageVars>>


(***************************************************************************)
(* parse_pagination_params: database/pagination.py                         *)
(***************************************************************************)
\* defaults = PaginationParams(page=1, limit=10); "Max 100 items per page"
DefaultPage == 1
DefaultLimit == 10
MaxItemsPerPage == 100

PyMax(a, b) == IF a >= b THEN a ELSE b
PyMin(a, b) == IF a <= b THEN a ELSE b

\* a value of search_params: missing, an int, or a str given by its
\* characters (n is the integer the text denotes, 0 when it denotes none)
Absent == [type |-> "absent", n |-> 0, text |-> <<>>]
IntValue(n) == [type |-> "int", n |-> n, text |-> <<>>]
StrValue(text, n) == [type |-> "str", n |-> n, text |-> text]

DigitVal == [c \in {"0", "1", "2", "3", "4", "5", "6", "7", "8", "9"} |->
                CASE c = "0" -> 0 [] c = "1" -> 1 [] c = "2" -> 2 [] c = "3" -> 3
                  [] c = "4" -> 4 [] c = "5" -> 5 [] c = "6" -> 6 [] c = "7" -> 7
                  [] c = "8" -> 8 [] c = "9" -> 9]

RECURSIVE DigitsValue(_)
DigitsValue(text) ==
    IF text = <<>> THEN 0
    ELSE 10 * DigitsValue(SubSeq(text, 1, Len(text) - 1)) + DigitVal[text[Len(text)]]

\* int(text) for a str: an optional sign and decimal digits, else ValueError
PyIntOfStr(text) ==
    LET neg == text # <<>> /\ text[1] = "-"
        digits == IF neg THEN Tail(text) ELSE text
    IN  IF digits = <<>> \/ \E i \in 1..Len(digits) : digits[i] \notin DOMAIN DigitVal
        THEN [ok |-> FALSE, n |-> 0]
        ELSE [ok |-> TRUE, n |-> IF neg THEN 0 - DigitsValue(digits) ELSE DigitsValue(digits)]

\* int(search_params.get(name, default))
GetInt(value, default) ==
    CASE value.type = "absent" -> [ok |-> TRUE, n |-> default]
      [] value.type = "int" -> [ok |-> TRUE, n |-> value.n]
      [] value.type = "str" -> PyIntOfStr(value.text)

\* page = max(1, page)
ClampPage(page) == PyMax(1, page)
\* limit = max(1, min(100, limit))
ClampLimitNoCap(limit) == PyMax(1, limit)
ClampLimit(limit) == PyMax(1, PyMin(MaxItemsPerPage, limit))

PaginationParams(page, limit) == [is_none |-> FALSE, page |-> page, limit |-> limit]
NoneDefaults == [is_none |-> TRUE, page |-> 0, limit |-> 0]

ParseInts == ((0 - ParseSpread)..ParseSpread)
                 \cup ((MaxItemsPerPage - 1)..(MaxItemsPerPage + ParseSpread))
ParseValues ==
    {Absent} \cup {IntValue(n) : n \in ParseInts}
        \cup {StrValue(<<"2">>, 2), StrValue(<<"2", "0">>, 20), StrValue(<<"-", "1">>, -1),
              StrValue(<<"1", "0", "1">>, 101), StrValue(<<"a", "b", "c">>, 0)}
ParseDefaults ==
    {NoneDefaults} \cup {PaginationParams(pg, lm) : pg \in {0, 2}, lm \in {0, 20, 200}}

NotParsed == [kind |-> "none", page |-> 0, limit |-> 0]
ParseRaised == [kind |-> "raise", page |-> 0, limit |-> 0]
ParseReturned(params) == [kind |-> "return", page |-> params.page, limit |-> params.limit]

\* parse_pagination_params(search_params, defaults)
parse_pagination_params(search_params, defaults) ==
    LET dflt == IF defaults.is_none THEN PaginationParams(DefaultPage, DefaultLimit)
                ELSE defaults
        page == GetInt(search_params.page, dflt.page)
        limit == GetInt(search_params.limit, dflt.limit)
    IN  /\ parse_in' = [search_params |-> search_params, defaults |-> defaults]
        /\ parse_out' = IF ~page.ok \/ ~limit.ok THEN ParseRaised
                        ELSE ParseReturned(PaginationParams(ClampPage(page.n),
                                                            ClampLimit(limit.n)))
        /\ UNCHANGED notParseVars

(***************************************************************************)
(* QueryCache: utils/cache.py                                              *)
(***************************************************************************)
\* QueryCache(ttl_seconds=300)
DefaultTtlSeconds == 300
TtlValues == {0, 2, DefaultTtlSeconds}

CacheKeys == {"k1", "k2"}
\* cached values; None is Python's None
None == "None"
CacheValues == {None, "v1", "v2"}

\* self.cache: a key is missing or maps to {"value", "expires_at"}
NoEntry == [present |-> FALSE, value |-> None, expires_at |-> 0]
Entry(value, expires_at) == [present |-> TRUE, value |-> value, expires_at |-> expires_at]

\* time.time() > entry["expires_at"]
ExpiredInclusive(t, entry) == t >= entry.expires_at
Expired(t, entry) == t > entry.expires_at

\* get(key): the value returned and the cache it leaves
GetValue(c, t, key) ==
    IF ~c[key].present THEN None
    ELSE IF Expired(t, c[key]) THEN None
    ELSE c[key].value
GetCache(c, t, key) ==
    IF c[key].present /\ Expired(t, c[key]) THEN [c EXCEPT ![key] = NoEntry] ELSE c

\* set(key, value): the cache it leaves
SetCache(c, t, key, value) == [c EXCEPT ![key] = Entry(value, t + ttl_seconds)]

\* the last call made on the cache and what it gave back
CacheOut(op, key, result, raised, invoked, held, held_value, op_value) ==
    [op |-> op, key |-> key, at |-> now, result |-> result, raised |-> raised,
     invoked |-> invoked, held |-> held, held_value |-> held_value,
     op_value |-> op_value]

\* the most recent set of each key, and whether invalidate or clear came after
NeverSet == [live |-> FALSE, value |-> None, set_at |-> 0]

get(key) ==
    /\ cache' = GetCache(cache, now, key)
    /\ cache_out' = CacheOut("get", key, GetValue(cache, now, key), FALSE, 0,
                             FALSE, None, None)
    /\ UNCHANGED <<ttl_seconds, now, cache_hist, notCacheVars>>

set(key, value) ==
    /\ cache' = SetCache(cache, now, key, value)
    /\ cache_hist' = [cache_hist EXCEPT ![key] = [live |-> TRUE, value |-> value,
                                                  set_at |-> now]]
    /\ cache_out' = CacheOut("set", key, None, FALSE, 0, FALSE, None, None)
    /\ UNCHANGED <<ttl_seconds, now, notCacheVars>>

\* get_or_set(key, operation): operation returns `value`, or raises
get_or_set(key, value, raises) ==
    LET cached == GetValue(cache, now, key)
        after_get == GetCache(cache, now, key)
        held == cache[key].present /\ ~(now > cache[key].expires_at)
        held_value == IF held THEN cache[key].value ELSE None
    IN  IF cached # None
        THEN /\ cache' = after_get
             /\ cache_out' = CacheOut("get_or_set", key, cached, FALSE, 0,
                                      held, held_value, value)
             /\ UNCHANGED <<ttl_seconds, now, cache_hist, notCacheVars>>
        ELSE IF raises
        THEN /\ cache' = after_get
             /\ cache_out' = CacheOut("get_or_set", key, None, TRUE, 1,
                                      held, held_value, value)
             /\ UNCHANGED <<ttl_seconds, now, cache_hist, notCacheVars>>
        ELSE /\ cache' = SetCache(after_get, now, key, value)
             /\ cache_hist' = [cache_hist EXCEPT ![key] = [live |-> TRUE, value |-> value,
                                                           set_at |-> now]]
             /\ cache_out' = CacheOut("get_or_set", key, value, FALSE, 1,
                                      held, held_value, value)
             /\ UNCHANGED <<ttl_seconds, now, notCacheVars>>

clear ==
    /\ cache' = [k \in CacheKeys |-> NoEntry]
    /\ cache_hist' = [k \in CacheKeys |-> [cache_hist[k] EXCEPT !.live = FALSE]]
    /\ cache_out' = CacheOut("clear", "k1", None, FALSE, 0, FALSE, None, None)
    /\ UNCHANGED <<ttl_seconds, now, notCacheVars>>

\* invalidate as it would be if it emptied the whole cache
invalidateEverything(key) ==
    /\ cache' = [k \in CacheKeys |-> NoEntry]
    /\ cache_hist' = [k \in CacheKeys |-> [cache_hist[k] EXCEPT !.live = FALSE]]
    /\ cache_out' = CacheOut("invalidate", key, None, FALSE, 0, FALSE, None, None)
    /\ UNCHANGED <<ttl_seconds, now, notCacheVars>>

invalidate(key) ==
    /\ cache' = IF cache[key].present THEN [cache EXCEPT ![key] = NoEntry] ELSE cache
    /\ cache_hist' = [cache_hist EXCEPT ![key].live = FALSE]
    /\ cache_out' = CacheOut("invalidate", key, None, FALSE, 0, FALSE, None, None)
    /\ UNCHANGED <<ttl_seconds, now, notCacheVars>>

\* time passes between two calls
Tick ==
    /\ now < MaxClock
    /\ now' = now + 1
    /\ cache_out' = [cache_out EXCEPT !.op = "tick"]
    /\ UNCHANGED <<cache, ttl_seconds, cache_hist, notCacheVars>>

(***************************************************************************)
(* SubscriptionManager: realtime/subscription.py                           *)
(***************************************************************************)
ChannelNames == {"a", "b"}

\* calls the manager makes on its client and on the channels it returns;
\* the n-th client.channel(...) call returns channel object n
ClientCall(call, id, name) == [call |-> call, id |-> id, name |-> name]
Created(log) == {i \in 1..Len(log) : log[i].call = "channel"}
NewChannelId(log) == Cardinality(Created(log)) + 1

\* self.channels, in insertion order: the names held and their channels
Holds(chs, name) == \E i \in 1..Len(chs) : chs[i].name = name
HeldId(chs, name) ==
    IF Holds(chs, name) THEN chs[CHOOSE i \in 1..Len(chs) : chs[i].name = name].id ELSE 0
RECURSIVE Without(_, _)
Without(chs, name) ==
    IF chs = <<>> THEN <<>>
    ELSE IF Head(chs).name = name THEN Without(Tail(chs), name)
    ELSE <<Head(chs)>> \o Without(Tail(chs), name)

\* unsubscribe(channel_name) on the manager state [channels, log]
UnsubscribeState(st, name) ==
    IF Holds(st.channels, name)
    THEN [channels |-> Without(st.channels, name),
          log |-> Append(st.log, ClientCall("remove_channel", HeldId(st.channels, name), name))]
    ELSE st

\* lines 76-97 of subscribe: create, listen, subscribe, store
SubscribeNewState(st, name, has_table) ==
    LET id == NewChannelId(st.log)
        created == Append(st.log, ClientCall("channel", id, name))
        listened == IF has_table THEN Append(created, ClientCall("on", id, name))
                    ELSE created
    IN  [channels |-> IF Holds(st.channels, name)
                      THEN [i \in 1..Len(st.channels) |->
                               IF st.channels[i].name = name
                               THEN [name |-> name, id |-> id] ELSE st.channels[i]]
                      ELSE Append(st.channels, [name |-> name, id |-> id]),
         log |-> Append(listened, ClientCall("subscribe", id, name))]

\* for channel_name in names: self.unsubscribe(channel_name)
RECURSIVE UnsubscribeAll(_, _)
UnsubscribeAll(st, names) ==
    IF names = <<>> THEN st
    ELSE UnsubscribeAll(UnsubscribeState(st, Head(names)), Tail(names))

\* list(self.channels.keys())
KeysOf(chs) == [i \in 1..Len(chs) |-> chs[i].name]

\* the last call on the manager, with the channels and the length of the
\* client log it started from
SubOp(op, name) ==
    [op |-> op, name |-> name, before |-> channels, log_before |-> Len(client_log)]

\* subscribe as it would be without lines 73-74
subscribeNoRemove(name, has_table) ==
    /\ NewChannelId(client_log) <= MaxChannels
    /\ LET st == SubscribeNewState([channels |-> channels, log |-> client_log],
                                   name, has_table)
       IN  /\ channels' = st.channels
           /\ client_log' = st.log
    /\ sub_op' = SubOp("subscribe", name)
    /\ UNCHANGED notSubVars

\* subscribe(config) with config.channel = name and config.table set or not
subscribe(name, has_table) ==
    /\ NewChannelId(client_log) <= MaxChannels
    /\ LET st == SubscribeNewState(
                     UnsubscribeState([channels |-> channels, log |-> client_log], name),
                     name, has_table)
       IN  /\ channels' = st.channels
           /\ client_log' = st.log
    /\ sub_op' = SubOp("subscribe", name)
    /\ UNCHANGED notSubVars

unsubscribe(name) ==
    /\ LET st == UnsubscribeState([channels |-> channels, log |-> client_log], name)
       IN  /\ channels' = st.channels
           /\ client_log' = st.log
    /\ sub_op' = SubOp("unsubscribe", name)
    /\ UNCHANGED notSubVars

\* cleanup that stops one name short of the end of the key list
cleanupStopsShort ==
    /\ LET keys == KeysOf(channels)
           st == UnsubscribeAll([channels |-> channels, log |-> client_log],
                                SubSeq(keys, 1, Len(keys) - 1))
       IN  /\ channels' = st.channels
           /\ client_log' = st.log
    /\ sub_op' = SubOp("cleanup", "a")
    /\ UNCHANGED notSubVars

cleanup ==
    /\ LET st == UnsubscribeAll([channels |-> channels, log |-> client_log],
                                KeysOf(channels))
       IN  /\ channels' = st.channels
           /\ client_log' = st.log
    /\ sub_op' = SubOp("cleanup", "a")
    /\ UNCHANGED notSubVars

(***************************************************************************)
(* Flask helper get_supabase_client: framework/flask/helpers.py            *)
(***************************************************************************)
\* the Authorization header as the text before and after its 7th character
\* ("" and "" when the header is missing: headers.get("Authorization", ""))
Header(prefix, rest) == [prefix |-> prefix, rest |-> rest]
HeaderPrefixes == {"", "Bearer ", "bearer ", "Basic  "}
Tokens == {"", "jwt-h"}
Headers == {Header(pf, rest) : pf \in HeaderPrefixes, rest \in Tokens}

\* the sb-access-token cookie: missing (cookies.get gives None), empty or set
NoCookie == "None"
Cookies == {NoCookie, "", "jwt-c"}

\* auth_header.startswith("Bearer ")
StartsWithBearer(header) == header.prefix = "Bearer "
\* auth_header[7:]
HeaderToken(header) == header.rest
\* `not jwt_token` for None and for ""
Falsy(token) == token = NoCookie \/ token = ""

\* lines 60-69: the JWT taken from the header, else from the cookie
FlaskJwt(req) ==
    LET from_header == IF StartsWithBearer(req.auth_header)
                       THEN HeaderToken(req.auth_header) ELSE NoCookie
    IN  IF Falsy(from_header) THEN req.cookie ELSE from_header

\* errors get_supabase_client ends with
NoJwtMessage == "No JWT token found. User must be authenticated."
MissingConfigError ==
    [type |-> "ValueError", msg |-> "Missing Supabase configuration"]
\* line 72: raise ValueError(msg)(msg) calls the ValueError instance before
\* anything is raised, and an exception instance is not callable
NoJwtError == [type |-> "TypeError", msg |-> "'ValueError' object is not callable"]
NoError == [type |-> "", msg |-> ""]

\* clients built by create_client() and create_authenticated_client(jwt)
AnonClient == [kind |-> "anon", jwt |-> NoCookie]
AuthClient(jwt) == [kind |-> "auth", jwt |-> jwt]

FlaskOut(kind, require_auth, client, error) ==
    [kind |-> kind, require_auth |-> require_auth, client |-> client, error |-> error]

\* g.<cache_key> holds the index in flask_clients of the cached client, 0
\* when g has no such attribute
CacheKeyShared(require_auth) == "supabase_client"
CacheKey(require_auth) == IF require_auth THEN "supabase_client_auth" ELSE "supabase_client"

flask_get_supabase_client(require_auth) ==
    LET cache_key == CacheKey(require_auth)
        jwt_token == FlaskJwt(flask_request)
        new_id == Len(flask_clients) + 1
    IN  /\ IF flask_g[cache_key] # 0
           THEN /\ flask_out' = FlaskOut("return", require_auth, flask_g[cache_key], NoError)
                /\ UNCHANGED <<flask_g, flask_clients>>
           ELSE IF ~require_auth
           THEN IF flask_request.env_ok
                THEN /\ flask_clients' = Append(flask_clients, AnonClient)
                     /\ flask_g' = [flask_g EXCEPT ![cache_key] = new_id]
                     /\ flask_out' = FlaskOut("return", require_auth, new_id, NoError)
                ELSE /\ flask_out' = FlaskOut("raise", require_auth, 0, MissingConfigError)
                     /\ UNCHANGED <<flask_g, flask_clients>>
           ELSE IF Falsy(jwt_token)
           THEN /\ flask_out' = FlaskOut("raise", require_auth, 0, NoJwtError)
                /\ UNCHANGED <<flask_g, flask_clients>>
           ELSE IF flask_request.env_ok
           THEN /\ flask_clients' = Append(flask_clients, AuthClient(jwt_token))
                /\ flask_g' = [flask_g EXCEPT ![cache_key] = new_id]
                /\ flask_out' = FlaskOut("return", require_auth, new_id, NoError)
           ELSE /\ flask_out' = FlaskOut("raise", require_auth, 0, MissingConfigError)
                /\ UNCHANGED <<flask_g, flask_clients>>
        /\ UNCHANGED <<flask_request, notFlaskVars>>

(***************************************************************************)
(* Django helper get_supabase_client: framework/django/middleware.py       *)
(***************************************************************************)
\* request.session.get("supabase_jwt"): missing key (None), empty or set
SessionJwts == {NoCookie, "", "jwt-s"}
\* a request without the session middleware has no session attribute
DjangoRequests ==
    [auth_header : Headers, has_session : {TRUE}, session_jwt : SessionJwts,
     cookie : Cookies, env_ok : BOOLEAN]
    \cup [auth_header : Headers, has_session : {FALSE}, session_jwt : {NoCookie},
          cookie : Cookies, env_ok : BOOLEAN]

\* lines 53-55: the token of a "Bearer " Authorization header, else None
DjangoHeaderJwt(req) ==
    IF StartsWithBearer(req.auth_header) THEN HeaderToken(req.auth_header) ELSE NoCookie

\* line 58: the session is consulted when the header gave no token
ReadsSession(req) == Falsy(DjangoHeaderJwt(req)) /\ req.has_session
\* lines 58-59
DjangoSessionJwt(req) ==
    IF ReadsSession(req) THEN req.session_jwt ELSE DjangoHeaderJwt(req)

\* line 62: the cookie is consulted when neither gave a token
ReadsCookie(req) == Falsy(DjangoSessionJwt(req))
\* lines 50-63 with the cookie consulted before the session
DjangoJwtCookieFirst(req) ==
    LET after_cookie == IF Falsy(DjangoHeaderJwt(req)) THEN req.cookie
                        ELSE DjangoHeaderJwt(req)
    IN  IF Falsy(after_cookie) /\ req.has_session THEN req.session_jwt ELSE after_cookie
\* lines 50-63: header, then session, then cookie
DjangoJwt(req) ==
    IF ReadsCookie(req) THEN req.cookie ELSE DjangoSessionJwt(req)

\* the token sources one call consults, in order
DjangoReads(req) ==
    <<"header">> \o (IF ReadsSession(req) THEN <<"session">> ELSE <<>>)
                 \o (IF ReadsCookie(req) THEN <<"cookie">> ELSE <<>>)

\* line 66
DjangoNoJwtError == [type |-> "ValueError", msg |-> NoJwtMessage]

DjangoOut(kind, require_auth, client, error, reads) ==
    [kind |-> kind, require_auth |-> require_auth, client |-> client,
     error |-> error, reads |-> reads]

\* lines 46-68; no client is kept between calls
django_get_supabase_client(require_auth) ==
    LET jwt_token == DjangoJwt(django_request)
        new_id == Len(django_clients) + 1
    IN  /\ django_calls < MaxDjangoCalls
        /\ django_calls' = django_calls + 1
        /\ IF ~require_auth
           THEN IF django_request.env_ok
                THEN /\ django_clients' = Append(django_clients, AnonClient)
                     /\ django_out' = DjangoOut("return", require_auth, new_id, NoError, <<>>)
                ELSE /\ django_out' = DjangoOut("raise", require_auth, 0, MissingConfigError, <<>>)
                     /\ UNCHANGED django_clients
           ELSE IF Falsy(jwt_token)
           THEN /\ django_out' = DjangoOut("raise", require_auth, 0, DjangoNoJwtError,
                                           DjangoReads(django_request))
                /\ UNCHANGED django_clients
           ELSE IF django_request.env_ok
           THEN /\ django_clients' = Append(django_clients, AuthClient(jwt_token))
                /\ django_out' = DjangoOut("return", require_auth, new_id, NoError,
                                           DjangoReads(django_request))
           ELSE /\ django_out' = DjangoOut("raise", require_auth, 0, MissingConfigError,
                                           DjangoReads(django_request))
                /\ UNCHANGED django_clients
        /\ UNCHANGED <<django_request, notDjangoVars>>

(***************************************************************************)
(* Client factory create_client: client/create_client.py                   *)
(***************************************************************************)
\* values of the environment variables; None is an unset variable
EnvValues ==
    [ENVIRONMENT : {None, "Development"},
     NODE_ENV : {None, "development"},
     DEBUG : {None, "TRUE"},
     SUPABASE_URL : {None, "http://localhost:54321", "https://prod.supabase.co"},
     SUPABASE_URL_LOCAL : {None, "http://127.0.0.1:54321"},
     SUPABASE_ANON_KEY : {None, "env-anon"},
     SUPABASE_ANON_KEY_LOCAL : {None, "env-anon-local"},
     SUPABASE_SERVICE_ROLE_KEY : {None, "env-service"},
     SUPABASE_SERVICE_ROLE_KEY_LOCAL : {None, "env-service-local"}]

\* arguments of create_client; None is an argument left out
CreateClientArgs ==
    [url : {None, "", "https://custom.supabase.co"},
     anon_key : {None, "", "custom-key"},
     service_role_key : {None, "custom-service"}]

\* os.getenv(name, "")
GetEnvOrEmpty(value) == IF value = None THEN "" ELSE value
\* str.lower() on the values above
Lower(text) ==
    CASE text = "Development" -> "development"
      [] text = "TRUE" -> "true"
      [] OTHER -> text
\* str.startswith("http://localhost") on the values above
StartsWithLocalhost(text) == text = "http://localhost:54321"

\* lines 13-20
is_local_environment(env) ==
    \/ Lower(GetEnvOrEmpty(env.ENVIRONMENT)) = "development"
    \/ Lower(GetEnvOrEmpty(env.NODE_ENV)) = "development"
    \/ Lower(GetEnvOrEmpty(env.DEBUG)) = "true"
    \/ StartsWithLocalhost(GetEnvOrEmpty(env.SUPABASE_URL))

\* Python's `a or b`
PyOr(a, b) == IF Falsy(a) THEN b ELSE a

\* lines 53-55
SupabaseUrl(env, args) ==
    PyOr(args.url, IF is_local_environment(env) THEN env.SUPABASE_URL_LOCAL
                   ELSE env.SUPABASE_URL)
\* lines 56-58
SupabaseAnonKey(env, args) ==
    PyOr(args.anon_key, IF is_local_environment(env) THEN env.SUPABASE_ANON_KEY_LOCAL
                        ELSE env.SUPABASE_ANON_KEY)
\* lines 59-63
SupabaseServiceRoleKey(env, args) ==
    PyOr(args.service_role_key,
         IF is_local_environment(env) THEN env.SUPABASE_SERVICE_ROLE_KEY_LOCAL
         ELSE env.SUPABASE_SERVICE_ROLE_KEY)

\* line 72
ClientKey(env, args) == PyOr(SupabaseServiceRoleKey(env, args), SupabaseAnonKey(env, args))

NotCreated == [kind |-> "none", url |-> None, key |-> None, error |-> NoError]
\* line 74: create_supabase_client(supabase_url, key)
ClientCreated(url, key) == [kind |-> "return", url |-> url, key |-> key, error |-> NoError]
\* lines 65-69
CreateRaised == [kind |-> "raise", url |-> None, key |-> None, error |-> MissingConfigError]

\* lines 51-74
create_client ==
    /\ cc_out = NotCreated
    /\ cc_out' = IF Falsy(SupabaseUrl(cc_env, cc_args)) \/ Falsy(SupabaseAnonKey(cc_env, cc_args))
                 THEN CreateRaised
                 ELSE ClientCreated(SupabaseUrl(cc_env, cc_args), ClientKey(cc_env, cc_args))
    /\ UNCHANGED <<cc_env, cc_args, notCreateVars>>

(***************************************************************************)
(* Storage upload with validation: storage/upload.py                       *)
(***************************************************************************)
\* config.file: a path (existing or not, with the MIME type its name guesses
\* to, "None" when it guesses to none), bytes, an open binary stream at some
\* position, or an object of another type
MimeTypes == {None, "image/png", "text/plain"}
FileOf(kind, exists, size, pos, mime) ==
    [kind |-> kind, exists |-> exists, size |-> size, pos |-> pos, mime |-> mime]
Files ==
    {FileOf("path", TRUE, n, 0, mime) : n \in 0..MaxFileSize, mime \in MimeTypes}
    \cup {FileOf("path", FALSE, 0, 0, mime) : mime \in MimeTypes}
    \cup {FileOf("bytes", TRUE, n, 0, None) : n \in 0..MaxFileSize}
    \cup {FileOf("stream", TRUE, n, pos, None) : n \in 0..MaxFileSize, pos \in 0..1}
    \cup {FileOf("other", TRUE, 0, 0, None)}

\* FileValidationOptions; max_size None is NoMaxSize, allowed_types None is
\* not listed
NoMaxSize == -1
AllowedTypes(listed, types) == [listed |-> listed, types |-> types]
ValidationOptions(max_size, allowed_types) ==
    [given |-> TRUE, max_size |-> max_size, allowed_types |-> allowed_types]
\* upload_file called without validation
NoValidation ==
    [given |-> FALSE, max_size |-> NoMaxSize, allowed_types |-> AllowedTypes(FALSE, {})]
Validations ==
    {NoValidation}
    \cup {ValidationOptions(max_size, allowed) :
            max_size \in {NoMaxSize} \cup (0..MaxFileSize),
            allowed \in {AllowedTypes(FALSE, {}), AllowedTypes(TRUE, {}),
                         AllowedTypes(TRUE, {"image/png"})}}

UploadError(type, msg) == [type |-> type, msg |-> msg]

\* lines 78 and 84: `options.max_size and`, `options.allowed_types and`
MaxSizeSet(options) == options.max_size # NoMaxSize /\ options.max_size # 0
AllowedTypesSet(options) == options.allowed_types.listed /\ options.allowed_types.types # {}

\* lines 60-94: the error validate_file raises, NoError when it returns True
ValidateFileError(file, options) ==
    IF file.kind = "path" /\ ~file.exists
    THEN UploadError("ValueError", "File not found")
    ELSE IF file.kind = "other"
    THEN UploadError("ValueError", "Invalid file type")
    ELSE IF MaxSizeSet(options) /\ file.size > options.max_size
    THEN UploadError("ValueError", "File size exceeds limit")
    ELSE IF /\ AllowedTypesSet(options) /\ file.kind = "path"
            /\ file.mime # None /\ file.mime \notin options.allowed_types.types
    THEN UploadError("ValueError", "File type is not allowed")
    ELSE NoError

\* line 137: `if validation:`, an options object is always truthy
ValidationGivenNever(validation) == FALSE
ValidationGiven(validation) == validation.given

\* lines 141-147: the bytes handed to the storage client; a stream is read
\* from its current position
FileData(file) ==
    IF file.kind = "stream" THEN PyMax(file.size - file.pos, 0) ELSE file.size

\* answers of the storage client to upload: a response without error, a
\* response with an error, or a falsy response
UploadResponses == {"ok", "error", "falsy"}
\* answers to get_public_url: a string, something else, or an exception
PublicUrlResponses == {"str", "other", "raises"}

NotUploaded == [kind |-> "none", error |-> NoError, public_url |-> None]
UploadRaised(error) == [kind |-> "raise", error |-> error, public_url |-> None]
\* line 179
UploadResult(public_url) == [kind |-> "return", error |-> NoError, public_url |-> public_url]

StorageCall(call, size) == [call |-> call, size |-> size]

\* lines 136-179
upload_file ==
    LET file == up_in.file
        rejected == /\ ValidationGiven(up_in.validation)
                    /\ ValidateFileError(file, up_in.validation) # NoError
    IN  /\ up_out = NotUploaded
        /\ IF rejected
           THEN /\ up_out' = UploadRaised(ValidateFileError(file, up_in.validation))
                /\ UNCHANGED up_log
           ELSE IF file.kind = "path" /\ ~file.exists
           THEN /\ up_out' = UploadRaised(UploadError("FileNotFoundError", "open"))
                /\ UNCHANGED up_log
           ELSE IF up_in.response # "ok"
           THEN /\ up_log' = Append(up_log, StorageCall("upload", FileData(file)))
                /\ up_out' = UploadRaised(UploadError("ValueError", "Failed to upload file"))
           ELSE /\ up_log' = up_log \o << StorageCall("upload", FileData(file)),
                                          StorageCall("get_public_url", 0) >>
                /\ up_out' = UploadResult(IF up_in.public_url = "str" THEN "url" ELSE None)
        /\ UNCHANGED <<up_in, notUploadVars>>

(***************************************************************************)
(* SubscriptionManager._handle_payload: realtime/subscription.py           *)
(***************************************************************************)
\* payload["eventType"]; a payload without the key is NoEventType
NoEventType == "absent"
EventTypes == {NoEventType, "INSERT", "UPDATE", "DELETE", "insert", "TRUNCATE", "*"}
\* payload.get("eventType", "")
GetEventType(event_type) == IF event_type = NoEventType THEN "" ELSE event_type

\* the callbacks of a SubscriptionConfig: set or None
HandlerConfigs ==
    [on_event : BOOLEAN, on_insert : BOOLEAN, on_update : BOOLEAN, on_delete : BOOLEAN]

\* event_type == "INSERT" and the like
MatchesEventAnyCase(event_type, name) ==
    event_type = name \/ (event_type = "insert" /\ name = "INSERT")
MatchesEvent(event_type, name) == event_type = name

\* lines 110-115: the specific handler called, if any
SpecificCalls(event_type, config) ==
    IF MatchesEvent(event_type, "INSERT") /\ config.on_insert THEN <<"on_insert">>
    ELSE IF MatchesEvent(event_type, "UPDATE") /\ config.on_update THEN <<"on_update">>
    ELSE IF MatchesEvent(event_type, "DELETE") /\ config.on_delete THEN <<"on_delete">>
    ELSE <<>>

NotHandled == "none"

\* lines 103-115; a callback that raises ends the handling there
handle_payload ==
    LET event_type == GetEventType(hp_in.event_type)
        config == hp_in.config
        specific == SpecificCalls(event_type, config)
    IN  /\ hp_out = NotHandled
        /\ IF config.on_event /\ hp_in.on_event_raises
           THEN /\ hp_calls' = <<"on_event">>
                /\ hp_out' = "raise"
           ELSE /\ hp_calls' = (IF config.on_event THEN <<"on_event">> ELSE <<>>) \o specific
                /\ hp_out' = IF specific # <<>> /\ hp_in.specific_raises
                             THEN "raise" ELSE "return"
        /\ UNCHANGED <<hp_in, notHandleVars>>

(***************************************************************************)
(* Specifications: one per component, the other components not in use      *)
(***************************************************************************)
RetryIdle == inv = [p \in Procs |-> Idle]

PageIdle ==
    /\ query = [total |-> 0, count_attr |-> "exact", data_attr |-> TRUE]
    /\ range_calls = <<>>
    /\ page_out = <<>>
    /\ collab_log = <<>>

ParseIdle ==
    /\ parse_in = [search_params |-> [page |-> Absent, limit |-> Absent],
                   defaults |-> NoneDefaults]
    /\ parse_out = NotParsed

\* QueryCache() just built and never called
CacheNew(ttl) ==
    /\ cache = [k \in CacheKeys |-> NoEntry]
    /\ ttl_seconds = ttl
    /\ now = 0
    /\ cache_hist = [k \in CacheKeys |-> NeverSet]
    /\ cache_out = [op |-> "init", key |-> "k1", at |-> 0, result |-> None,
                    raised |-> FALSE, invoked |-> 0, held |-> FALSE,
                    held_value |-> None, op_value |-> None]

CacheIdle == CacheNew(DefaultTtlSeconds)

\* SubscriptionManager(client) just built
SubIdle ==
    /\ channels = <<>>
    /\ client_log = <<>>
    /\ sub_op = [op |-> "init", name |-> "a", before |-> <<>>, log_before |-> 0]

\* a Flask request context just pushed: g is empty
FlaskNew(req) ==
    /\ flask_request = req
    /\ flask_g = [supabase_client |-> 0, supabase_client_auth |-> 0]
    /\ flask_clients = <<>>
    /\ flask_out = FlaskOut("none", FALSE, 0, NoError)

FlaskIdle == FlaskNew([auth_header |-> Header("", ""), cookie |-> NoCookie, env_ok |-> TRUE])

\* a Django request on which get_supabase_client has not been called yet
DjangoNew(req) ==
    /\ django_request = req
    /\ django_clients = <<>>
    /\ django_calls = 0
    /\ django_out = DjangoOut("none", FALSE, 0, NoError, <<>>)

DjangoIdle ==
    DjangoNew([auth_header |-> Header("", ""), has_session |-> FALSE,
               session_jwt |-> NoCookie, cookie |-> NoCookie, env_ok |-> TRUE])

\* one create_client call about to be made
CreateNew(env, args) ==
    /\ cc_env = env
    /\ cc_args = args
    /\ cc_out = NotCreated

CreateIdle ==
    CreateNew([ENVIRONMENT |-> None, NODE_ENV |-> None, DEBUG |-> None,
               SUPABASE_URL |-> None, SUPABASE_URL_LOCAL |-> None,
               SUPABASE_ANON_KEY |-> None, SUPABASE_ANON_KEY_LOCAL |-> None,
               SUPABASE_SERVICE_ROLE_KEY |-> None,
               SUPABASE_SERVICE_ROLE_KEY_LOCAL |-> None],
              [url |-> None, anon_key |-> None, service_role_key |-> None])

\* one upload_file call about to be made on a storage client not used yet
UploadNew(file, validation, response, public_url) ==
    /\ up_in = [file |-> file, validation |-> validation, response |-> response,
                public_url |-> public_url]
    /\ up_log = <<>>
    /\ up_out = NotUploaded

UploadIdle == UploadNew(FileOf("bytes", TRUE, 0, 0, None), NoValidation, "ok", "str")

\* one payload about to be delivered to a subscription's callback
HandleNew(event_type, config, on_event_raises, specific_raises) ==
    /\ hp_in = [event_type |-> event_type, config |-> config,
                on_event_raises |-> on_event_raises,
                specific_raises |-> specific_raises]
    /\ hp_calls = <<>>
    /\ hp_out = NotHandled

HandleIdle ==
    HandleNew(NoEventType,
              [on_event |-> FALSE, on_insert |-> FALSE, on_update |-> FALSE,
               on_delete |-> FALSE], FALSE, FALSE)

\* the components other than the retry executor are not in use
OthersIdle == PageIdle /\ ParseIdle /\ CacheIdle /\ SubIdle /\ FlaskIdle /\ DjangoIdle /\ CreateIdle /\ UploadIdle /\ HandleIdle

InitHandle ==
    /\ \E event_type \in EventTypes, config \in HandlerConfigs,
          on_event_raises \in BOOLEAN, specific_raises \in BOOLEAN :
          HandleNew(event_type, config, on_event_raises, specific_raises)
    /\ RetryIdle /\ PageIdle /\ ParseIdle /\ CacheIdle /\ SubIdle /\ FlaskIdle /\ DjangoIdle /\ CreateIdle /\ UploadIdle

NextHandle == handle_payload

SpecHandle == InitHandle /\ [][NextHandle]_vars

InitUpload ==
    /\ \E file \in Files, validation \in Validations,
          response \in UploadResponses, public_url \in PublicUrlResponses :
          UploadNew(file, validation, response, public_url)
    /\ RetryIdle /\ PageIdle /\ ParseIdle /\ CacheIdle /\ SubIdle /\ FlaskIdle /\ DjangoIdle /\ CreateIdle /\ HandleIdle

NextUpload == upload_file

SpecUpload == InitUpload /\ [][NextUpload]_vars

InitCreate ==
    /\ \E env \in EnvValues, args \in CreateClientArgs : CreateNew(env, args)
    /\ RetryIdle /\ PageIdle /\ ParseIdle /\ CacheIdle /\ SubIdle /\ FlaskIdle /\ DjangoIdle /\ UploadIdle /\ HandleIdle

NextCreate == create_client

SpecCreate == InitCreate /\ [][NextCreate]_vars

InitDjango ==
    /\ \E req \in DjangoRequests : DjangoNew(req)
    /\ RetryIdle /\ PageIdle /\ ParseIdle /\ CacheIdle /\ SubIdle /\ FlaskIdle /\ CreateIdle /\ UploadIdle /\ HandleIdle

NextDjango == \E require_auth \in BOOLEAN : django_get_supabase_client(require_auth)

SpecDjango == InitDjango /\ [][NextDjango]_vars

InitFlask ==
    /\ \E header \in Headers, cookie \in Cookies, env_ok \in BOOLEAN :
          FlaskNew([auth_header |-> header, cookie |-> cookie, env_ok |-> env_ok])
    /\ RetryIdle /\ PageIdle /\ ParseIdle /\ CacheIdle /\ SubIdle /\ DjangoIdle /\ CreateIdle /\ UploadIdle /\ HandleIdle

NextFlask == \E require_auth \in BOOLEAN : flask_get_supabase_client(require_auth)

SpecFlask == InitFlask /\ [][NextFlask]_vars

InitSub == SubIdle /\ RetryIdle /\ PageIdle /\ ParseIdle /\ CacheIdle /\ FlaskIdle /\ DjangoIdle /\ CreateIdle /\ UploadIdle /\ HandleIdle

NextSub ==
    \/ \E name \in ChannelNames, has_table \in BOOLEAN : subscribe(name, has_table)
    \/ \E name \in ChannelNames : unsubscribe(name)
    \/ cleanup

SpecSub == InitSub /\ [][NextSub]_vars

InitCache ==
    /\ \E ttl \in TtlValues : CacheNew(ttl)
    /\ RetryIdle /\ PageIdle /\ ParseIdle /\ SubIdle /\ FlaskIdle /\ DjangoIdle /\ CreateIdle /\ UploadIdle /\ HandleIdle

NextCache ==
    \/ \E key \in CacheKeys : get(key)
    \/ \E key \in CacheKeys, value \in CacheValues : set(key, value)
    \/ \E key \in CacheKeys, value \in CacheValues, raises \in BOOLEAN :
          get_or_set(key, value, raises)
    \/ clear
    \/ \E key \in CacheKeys : invalidate(key)
    \/ Tick

SpecCache == InitCache /\ [][NextCache]_vars

InitPaginate ==
    /\ \E total \in Totals, count_attr \in CountAttrs, data_attr \in BOOLEAN :
          query = [total |-> total, count_attr |-> count_attr, data_attr |-> data_attr]
    /\ range_calls = <<>>
    /\ page_out = <<>>
    /\ collab_log = <<>>
    /\ RetryIdle /\ ParseIdle /\ CacheIdle /\ SubIdle /\ FlaskIdle /\ DjangoIdle /\ CreateIdle /\ UploadIdle /\ HandleIdle

NextPaginate == \E page \in Pages, limit \in Limits, fails \in BOOLEAN : paginate(page, limit, fails)

SpecPaginate == InitPaginate /\ [][NextPaginate]_vars

\* the arguments of one parse_pagination_params call, not yet made
InitParse ==
    /\ \E pg \in ParseValues, lm \in ParseValues, defaults \in ParseDefaults :
          parse_in = [search_params |-> [page |-> pg, limit |-> lm], defaults |-> defaults]
    /\ parse_out = NotParsed
    /\ RetryIdle /\ PageIdle /\ CacheIdle /\ SubIdle /\ FlaskIdle /\ DjangoIdle /\ CreateIdle /\ UploadIdle /\ HandleIdle

NextParse ==
    /\ parse_out = NotParsed
    /\ parse_pagination_params(parse_in.search_params, parse_in.defaults)

SpecParse == InitParse /\ [][NextParse]_vars

\* one invocation, any configuration, any operation
InitRetry ==
    /\ \E config \in Configs \cup {NoneConfig}, script \in Scripts :
          inv = [p \in Procs |-> IF p = 1 THEN NewInvocation(config, script) ELSE Idle]
    /\ OthersIdle

NextRetry == \E p \in Procs : with_retry(p)

SpecRetry == InitRetry /\ [][NextRetry]_vars

\* with_retry runs to its end: every call of the operation returns or
\* raises, time.sleep returns, and nothing else blocks the invocation
SpecRetryLive == SpecRetry /\ WF_vars(NextRetry)

\* two invocations on the same operation behaviour and the same policy,
\* one without should_retry and one with a predicate that accepts every error
InitRetryPair ==
    /\ \E m \in (-1)..MaxRetries, d \in DelayValues, b \in BOOLEAN, script \in Scripts :
          inv = [p \in Procs |->
                    IF p = 1 THEN NewInvocation(RetryConfig(m, d, b, "None"), script)
                    ELSE NewInvocation(RetryConfig(m, d, b, "always_true"), script)]
    /\ OthersIdle

SpecRetryPair == InitRetryPair /\ [][NextRetry]_vars

\* two concurrent invocations, each with its own policy and operation
ConcScripts ==
    {sc \in Scripts : /\ \A k \in DOMAIN sc : sc[k] \in {Ok, NoCode, "23505"}
                      /\ \A k \in DOMAIN sc : k > 2 => sc[k] = sc[2]}
ConcConfigs ==
    {RetryConfig(m, 100, b, s) : m \in {1, MaxRetries}, b \in BOOLEAN,
                                 s \in {"None", "uncoded_only"}}

InitRetryConcurrent ==
    /\ \E c1 \in ConcConfigs, c2 \in ConcConfigs, s1 \in ConcScripts, s2 \in ConcScripts :
          inv = [p \in Procs |-> IF p = 1 THEN NewInvocation(c1, s1)
                                 ELSE NewInvocation(c2, s2)]
    /\ OthersIdle

SpecRetryConcurrent == InitRetryConcurrent /\ [][NextRetry]_vars

(***************************************************************************)
(* Properties of the retry executor                                        *)
(***************************************************************************)
Done(p) == inv[p].pc = "done"
Started(p) == inv[p].pc \notin {"idle", "start"}

\* errors that neither the code list nor the predicate stops
RetryableFor(should_retry, code) ==
    /\ code \in Codes
    /\ code \notin {"23505", "23503"}
    /\ should_retry = "None" \/ CallPredicate(should_retry, OpError(code, 0))

AlwaysFails(script) == \A k \in DOMAIN script : script[k] \in {NoCode, "PGRST116"}

FailsThenSucceeds(script, should_retry, k) ==
    /\ k + 1 \in DOMAIN script
    /\ \A j \in 1..k : RetryableFor(should_retry, script[j])
    /\ script[k + 1] = Ok

DelaysOf(p) == [j \in 1..Len(inv[p].sleeps) |-> inv[p].sleeps[j].delay_ms]

\* C1: with max_retries = n >= 0 and no should_retry, an operation that fails
\* on every call with a retryable error is invoked exactly n+1 times and the
\* error raised is the one of the last invocation.
C1_AlwaysFailingRaisesLast ==
    \A p \in Procs :
        LET c == inv[p].config
            n == c.max_retries
        IN  (Done(p) /\ n >= 0 /\ c.should_retry = "None" /\ AlwaysFails(inv[p].script))
            => /\ inv[p].calls = n + 1
               /\ inv[p].outcome = Raised(OpError(inv[p].script[n + 1], n + 1))

C1_Witness ==
    \E p \in Procs :
        /\ Done(p) /\ inv[p].config.max_retries = 2
        /\ inv[p].config.should_retry = "None" /\ AlwaysFails(inv[p].script)
        /\ inv[p].script[1] # inv[p].script[3]
        /\ inv[p].calls = 3 /\ inv[p].outcome.kind = "raise"

\* C2: an operation that fails k < max_retries times with retryable errors
\* and then succeeds makes with_retry return the value of call k+1 after
\* exactly k+1 invocations.
C2_EventualSuccess ==
    \A p \in Procs : \A k \in 0..CallsBound :
        (/\ Done(p)
         /\ k < inv[p].config.max_retries
         /\ FailsThenSucceeds(inv[p].script, inv[p].config.should_retry, k))
        => /\ inv[p].calls = k + 1
           /\ inv[p].outcome = Returned(k + 1)

C2_Witness ==
    \E p \in Procs :
        /\ Done(p) /\ inv[p].config.max_retries = 2
        /\ FailsThenSucceeds(inv[p].script, inv[p].config.should_retry, 1)
        /\ inv[p].calls = 2 /\ inv[p].outcome.kind = "return"

\* C3: when should_retry is supplied and answers false for the error of the
\* first call, the operation is invoked once, that error is raised and no
\* sleep happens, whatever max_retries is.
C3_PredicateFalseStops ==
    \A p \in Procs :
        LET c == inv[p].config
            first == inv[p].script[1]
        IN  (/\ Started(p) /\ inv[p].calls >= 1
             /\ first # Ok
             /\ c.should_retry \in PredicateNames
             /\ ~CallPredicate(c.should_retry, OpError(first, 1)))
            => /\ inv[p].calls = 1
               /\ inv[p].sleeps = <<>>
               /\ inv[p].pc \in {"except", "done"}
               /\ Done(p) => inv[p].outcome = Raised(OpError(first, 1))

C3_Witness ==
    \E p \in Procs :
        /\ Done(p) /\ inv[p].config.max_retries = 2
        /\ inv[p].config.should_retry = "always_false"
        /\ inv[p].script[1] = NoCode
        /\ inv[p].outcome.kind = "raise"

\* C4: when the error of the first call carries code 23505 or 23503, the
\* operation is invoked once, that error is raised and no sleep happens,
\* whatever max_retries is and whether should_retry is absent or answers
\* true or false.
C4_NonRetryableCodeStops ==
    \A p \in Procs :
        LET first == inv[p].script[1]
        IN  (Started(p) /\ inv[p].calls >= 1 /\ first \in {"23505", "23503"})
            => /\ inv[p].calls = 1
               /\ inv[p].sleeps = <<>>
               /\ inv[p].pc \in {"except", "done"}
               /\ Done(p) => inv[p].outcome = Raised(OpError(first, 1))

C4_Witness ==
    \E p \in Procs :
        /\ Done(p) /\ inv[p].config.max_retries = 2
        /\ inv[p].config.should_retry = "always_true"
        /\ inv[p].script[1] = "23503"
        /\ inv[p].outcome.kind = "raise"

\* C5 as stated: with exponential backoff the delay slept before attempt i
\* (attempts counted from 0) is delay_ms * 2^i; without it every delay is
\* delay_ms.
C5_DelayBeforeAttempt ==
    \A p \in Procs : \A j \in 1..Len(inv[p].sleeps) :
        LET c == inv[p].config
            i == inv[p].sleeps[j].after_attempt + 1
        IN  inv[p].sleeps[j].delay_ms =
                IF c.exponential_backoff THEN c.delay_ms * Pow2(i) ELSE c.delay_ms

\* C5 amended: with exponential backoff the delay slept after failed attempt
\* i (attempts counted from 0), that is before attempt i+1, is
\* delay_ms * 2^i; without it every delay is delay_ms.
C5_DelayAfterAttempt ==
    \A p \in Procs : \A j \in 1..Len(inv[p].sleeps) :
        LET c == inv[p].config
            i == inv[p].sleeps[j].after_attempt
        IN  /\ i = j - 1
            /\ inv[p].sleeps[j].delay_ms =
                   IF c.exponential_backoff THEN c.delay_ms * Pow2(i) ELSE c.delay_ms

C5_Witness ==
    \E p \in Procs :
        /\ Len(inv[p].sleeps) = 2
        /\ inv[p].config.exponential_backoff
        /\ inv[p].config.delay_ms = 100
        /\ inv[p].sleeps[2].delay_ms = 200

\* C6: with max_retries=2, delay_ms=100 and exponential backoff, an operation
\* that fails twice and then succeeds is invoked 3 times, with_retry sleeps
\* 100 ms and then 200 ms and returns the value of the third call.
C6_Scenario ==
    \A p \in Procs :
        LET c == inv[p].config
        IN  (/\ Done(p)
             /\ c.max_retries = 2 /\ c.delay_ms = 100 /\ c.exponential_backoff
             /\ FailsThenSucceeds(inv[p].script, c.should_retry, 2))
            => /\ DelaysOf(p) = <<100, 200>>
               /\ inv[p].calls = 3
               /\ inv[p].outcome = Returned(3)

C6_Witness ==
    \E p \in Procs :
        /\ Done(p)
        /\ inv[p].config = RetryConfig(2, 100, TRUE, "None")
        /\ FailsThenSucceeds(inv[p].script, "None", 2)
        /\ inv[p].outcome.kind = "return"

\* C7: with max_retries = 0 the operation is invoked exactly once and
\* with_retry never sleeps; a failing attempt's error is the one raised.
C7_ZeroRetries ==
    \A p \in Procs :
        LET first == inv[p].script[1]
        IN  (Started(p) /\ inv[p].config.max_retries = 0)
            => /\ inv[p].sleeps = <<>>
               /\ inv[p].pc # "sleep"
               /\ inv[p].calls <= 1
               /\ Done(p) => /\ inv[p].calls = 1
                             /\ inv[p].outcome = IF first = Ok THEN Returned(1)
                                                 ELSE Raised(OpError(first, 1))

C7_Witness ==
    \E p \in Procs :
        /\ Done(p) /\ inv[p].config.max_retries = 0
        /\ inv[p].script[1] = "PGRST116"
        /\ inv[p].config.should_retry = "always_true"
        /\ inv[p].outcome.kind = "raise"

\* C8: on the same operation behaviour and the same max_retries, delay_ms and
\* exponential_backoff, a should_retry that answers true for every error and
\* no should_retry give the same number of invocations, the same delays and
\* the same returned value or raised error.
C8_AlwaysTrueSameAsNone ==
    \A p \in Procs : \A q \in Procs :
        LET c == inv[p].config
            d == inv[q].config
        IN  (/\ Done(p) /\ Done(q)
             /\ inv[p].script = inv[q].script
             /\ c.max_retries = d.max_retries
             /\ c.delay_ms = d.delay_ms
             /\ c.exponential_backoff = d.exponential_backoff
             /\ c.should_retry = "None" /\ d.should_retry = "always_true")
            => /\ inv[p].calls = inv[q].calls
               /\ inv[p].sleeps = inv[q].sleeps
               /\ inv[p].outcome = inv[q].outcome

C8_Witness ==
    /\ Done(1) /\ Done(2)
    /\ inv[1].config.should_retry = "None"
    /\ inv[2].config.should_retry = "always_true"
    /\ inv[1].script = inv[2].script
    /\ inv[1].config.max_retries = 2 /\ inv[2].config.max_retries = 2
    /\ Len(inv[2].sleeps) = 2
    /\ inv[2].outcome.kind = "raise"

\* with_retry run from start to end with nothing else running: the loop of
\* lines 59-87 from iteration `attempt` on
RECURSIVE RunLoop(_, _, _, _, _, _)
RunLoop(config, script, attempt, calls, sleeps, last_error) ==
    IF ~InRange(config, attempt)
    THEN [calls |-> calls, sleeps |-> sleeps, outcome |-> Raised(FinalError(last_error))]
    ELSE LET call == calls + 1
             what == script[call]
             error == OpError(what, call)
         IN  IF what = Ok
             THEN [calls |-> call, sleeps |-> sleeps, outcome |-> Returned(call)]
             ELSE IF PredicateRejects(config, error) \/ HasNonRetryableCode(error)
             THEN [calls |-> call, sleeps |-> sleeps, outcome |-> Raised(error)]
             ELSE IF MoreAttemptsRemain(config, attempt)
             THEN RunLoop(config, script, attempt + 1, call,
                          Append(sleeps, [after_attempt |-> attempt,
                                          delay_ms |-> ComputeDelay(config, attempt)]),
                          error)
             ELSE RunLoop(config, script, attempt + 1, call, sleeps, error)

RunAlone(config, script) ==
    RunLoop(IF config.is_none THEN DefaultRetryConfig ELSE config, script,
            0, 0, <<>>, NoneError)

\* C15: under every interleaving of two with_retry invocations, each
\* invocation makes the same number of operation calls, sleeps the same
\* delays and returns or raises the same as when it runs alone.
C15_ConcurrentSameAsAlone ==
    \A p \in Procs :
        Done(p) => [calls |-> inv[p].calls, sleeps |-> inv[p].sleeps,
                    outcome |-> inv[p].outcome]
                       = RunAlone(inv[p].config, inv[p].script)

C15_Witness ==
    /\ Done(1) /\ Done(2)
    /\ inv[1].outcome.kind = "raise" /\ inv[1].calls = 3 /\ Len(inv[1].sleeps) = 2
    /\ inv[2].outcome.kind = "return" /\ inv[2].calls = 2 /\ Len(inv[2].sleeps) = 1
    /\ inv[1].config # inv[2].config

(***************************************************************************)
(* Properties of the pagination calculator                                 *)
(***************************************************************************)
\* ceil(total / limit) for limit >= 1: the least n with n * limit >= total
Ceil(total, limit) ==
    CHOOSE n \in 0..total : n * limit >= total /\ \A m \in 0..(n - 1) : m * limit < total

\* C9: for total >= 0, limit >= 1 and page >= 1 a returned page has
\* total_pages = ceil(total / limit) (0 when total is 0),
\* has_next = (page < total_pages) and has_prev = (page > 1), where total is
\* the collaborator's count; total=25, limit=10 gives 3 pages and total=0,
\* limit=10, page=1 gives 0 pages and neither a next nor a previous page.
C9_DerivedFields ==
    \A i \in 1..Len(page_out) :
        LET r == page_out[i]
        IN  (r.kind = "return" /\ r.total >= 0 /\ r.limit >= 1 /\ r.page >= 1)
            => /\ query.count_attr = "exact" => r.total = query.total
               /\ r.total_pages = Ceil(r.total, r.limit)
               /\ r.total = 0 => r.total_pages = 0
               /\ r.has_next = (r.page < Ceil(r.total, r.limit))
               /\ r.has_prev = (r.page > 1)
               /\ (r.total = 25 /\ r.limit = 10) => r.total_pages = 3
               /\ (r.total = 0 /\ r.limit = 10 /\ r.page = 1)
                      => (r.total_pages = 0 /\ ~r.has_next /\ ~r.has_prev)

C9_Witness ==
    \E i \in 1..Len(page_out) :
        /\ page_out[i].kind = "return"
        /\ page_out[i].total = 25 /\ page_out[i].limit = 10 /\ page_out[i].page = 3
        /\ page_out[i].total_pages = 3
        /\ ~page_out[i].has_next /\ page_out[i].has_prev

\* C10: the i-th paginate call asks the collaborator for the inclusive range
\* that starts at (page - 1) * limit and ends limit - 1 rows later: page 1
\* starts at 0, page 2 at limit, and for limit >= 1 the range spans exactly
\* limit rows.
C10_RangeRequested ==
    /\ Len(range_calls) = Len(page_out)
    /\ \A i \in 1..Len(range_calls) :
          LET page == page_out[i].page
              limit == page_out[i].limit
              c == range_calls[i]
          IN  /\ c.from = page * limit - limit
              /\ c.to = page * limit - 1
              /\ page = 1 => c.from = 0
              /\ page = 2 => c.from = limit
              /\ limit >= 1 => Cardinality(c.from .. c.to) = limit

C10_Witness ==
    \E i \in 1..Len(range_calls) :
        /\ page_out[i].page = 2 /\ page_out[i].limit = 10
        /\ page_out[i].kind = "return"
        /\ range_calls[i] = [from |-> 10, to |-> 19]

\* C11: a paginate call with limit <= 0 is rejected with an error and the
\* collaborator's range/execute is not invoked for it: the collaborator has
\* been called only for the requests with limit >= 1.
C11_InvalidLimitRejectedFirst ==
    /\ \A i \in 1..Len(page_out) : page_out[i].limit <= 0 => page_out[i].kind = "raise"
    /\ Len(range_calls) = Cardinality({i \in 1..Len(page_out) : page_out[i].limit >= 1})

\* C13: paginate substitutes no default for missing data: a page is returned
\* only when the collaborator's response carries both its rows and its
\* total count.
C13_NoFallbackForMissingData ==
    \A i \in 1..Len(page_out) :
        (page_out[i].kind = "return" /\ page_out[i].limit >= 1)
            => (query.data_attr /\ query.count_attr = "exact")

\* C14: every paginate call makes exactly one collaborator call, also when
\* the same request is made twice, and a call on which the collaborator
\* raises ends with the collaborator's error.
C14_OneCollaboratorCallPerPaginate ==
    /\ Len(range_calls) = Len(page_out)
    /\ Len(collab_log) = Len(page_out)
    /\ \A i \in 1..Len(collab_log) :
          collab_log[i] = "raise"
              <=> (page_out[i].kind = "raise" /\ page_out[i].error = "collaborator error")

C14_Witness ==
    /\ Len(page_out) = 2
    /\ page_out[1].page = page_out[2].page /\ page_out[1].limit = page_out[2].limit
    /\ page_out[1].kind = "return" /\ page_out[2].kind = "return"
    /\ Len(range_calls) = 2 /\ range_calls[1] = range_calls[2]

(***************************************************************************)
(* Properties of parse_pagination_params                                   *)
(***************************************************************************)
\* the integer given for a parameter: the input's, else the defaults'
GivenInt(value, default) == IF value.type = "absent" THEN default ELSE value.n
DenotesInt(value) == value.type # "str" \/ value.text # <<"a", "b", "c">>

\* C12: when page and limit, given in the input or taken from the defaults,
\* are integers, parse_pagination_params returns page = max(1, page) >= 1 and
\* limit = max(1, min(100, limit)) in 1..100; values already in range come
\* back unchanged.
C12_ParseClamps ==
    LET sp == parse_in.search_params
        dp == IF parse_in.defaults.is_none THEN 1 ELSE parse_in.defaults.page
        dl == IF parse_in.defaults.is_none THEN 10 ELSE parse_in.defaults.limit
        pg == GivenInt(sp.page, dp)
        lm == GivenInt(sp.limit, dl)
    IN  (parse_out.kind # "none" /\ DenotesInt(sp.page) /\ DenotesInt(sp.limit))
        => /\ parse_out.kind = "return"
           /\ parse_out.page >= 1
           /\ parse_out.limit >= 1 /\ parse_out.limit <= 100
           /\ parse_out.page = (IF pg < 1 THEN 1 ELSE pg)
           /\ parse_out.limit = (IF lm < 1 THEN 1 ELSE IF lm > 100 THEN 100 ELSE lm)
           /\ pg >= 1 => parse_out.page = pg
           /\ (lm >= 1 /\ lm <= 100) => parse_out.limit = lm

C12_Witness ==
    /\ parse_out.kind = "return"
    /\ parse_in.search_params.page = IntValue(0)
    /\ parse_in.search_params.limit = StrValue(<<"1", "0", "1">>, 101)
    /\ parse_out.page = 1 /\ parse_out.limit = 100

(***************************************************************************)
(* Properties of QueryCache                                                *)
(***************************************************************************)
\* what the claim expects of get(key) at time t: the value most recently set
\* while neither invalidate nor clear came after and set time + ttl has not
\* passed, else None
ExpectedGet(key, t) ==
    IF cache_hist[key].live /\ t <= cache_hist[key].set_at + ttl_seconds
    THEN cache_hist[key].value
    ELSE None

\* C16: after any sequence of set/get/get_or_set/invalidate/clear calls and
\* time advances, get(key) returns the value most recently set for key when
\* set time + ttl_seconds has not passed, and None when key was never set,
\* was invalidated or cleared or has expired; a get that finds an expired
\* entry removes it from the cache.
C16_GetReturnsLatestUnexpired ==
    /\ \A key \in CacheKeys : GetValue(cache, now, key) = ExpectedGet(key, now)
    /\ cache_out.op = "get"
          => /\ cache_out.result = ExpectedGet(cache_out.key, cache_out.at)
             /\ cache_out.at > cache_hist[cache_out.key].set_at + ttl_seconds
                    => ~cache[cache_out.key].present

C16_Witness ==
    /\ cache_out.op = "get"
    /\ cache_hist[cache_out.key].live
    /\ cache_hist[cache_out.key].value = "v2"
    /\ cache_out.at > cache_hist[cache_out.key].set_at + ttl_seconds
    /\ cache_out.result = None
    /\ ~cache[cache_out.key].present

\* C17: get_or_set(key, operation) returns the cached value without invoking
\* operation when key holds an unexpired entry, and otherwise invokes
\* operation exactly once, stores its result under key and returns it, for
\* every result value.
C17_GetOrSetInvokesOnlyOnMiss ==
    (cache_out.op = "get_or_set" /\ ~cache_out.raised)
        => IF cache_out.held
           THEN /\ cache_out.invoked = 0
                /\ cache_out.result = cache_out.held_value
           ELSE /\ cache_out.invoked = 1
                /\ cache_out.result = cache_out.op_value
                /\ cache[cache_out.key] = Entry(cache_out.op_value,
                                                cache_out.at + ttl_seconds)

(***************************************************************************)
(* Properties of SubscriptionManager                                       *)
(***************************************************************************)
RemovedIn(log, id) ==
    {k \in 1..Len(log) : log[k].call = "remove_channel" /\ log[k].id = id}

C19_CleanupRemovesAll ==
    /\ sub_op.op = "cleanup"
          => /\ channels = <<>>
             /\ Len(client_log) = sub_op.log_before + Len(sub_op.before)
             /\ \A k \in (sub_op.log_before + 1)..Len(client_log) :
                   client_log[k].call = "remove_channel"
             /\ \A j \in 1..Len(sub_op.before) :
                   Cardinality({k \in RemovedIn(client_log, sub_op.before[j].id) :
                                   k > sub_op.log_before}) = 1
    /\ (sub_op.op = "unsubscribe" /\ ~Holds(sub_op.before, sub_op.name))
          => /\ channels = sub_op.before
             /\ Len(client_log) = sub_op.log_before

C19_Witness ==
    /\ sub_op.op = "cleanup"
    /\ Len(sub_op.before) = 2
    /\ channels = <<>>
    /\ Len(client_log) = sub_op.log_before + 2

(***************************************************************************)
(* Properties of the Flask helper                                          *)
(***************************************************************************)
\* C20: get_supabase_client(require_auth=True) on a request with neither a
\* "Bearer " Authorization header nor an sb-access-token cookie raises
\* ValueError "No JWT token found..." and creates and caches no client.
C20_MissingTokenRaisesValueError ==
    (/\ flask_out.kind # "none" /\ flask_out.require_auth
     /\ flask_request.auth_header.prefix # "Bearer "
     /\ flask_request.cookie = NoCookie)
        => /\ flask_out.kind = "raise"
           /\ flask_out.error.type = "ValueError"
           /\ flask_out.error.msg = NoJwtMessage
           /\ flask_g.supabase_client_auth = 0
           /\ \A i \in 1..Len(flask_clients) : flask_clients[i].kind # "auth"

\* C21: within one Flask request context a call that finds its slot on g
\* filled returns that client and creates nothing; a call that finds it
\* empty and returns has created one client and stored it in its own slot
\* only; and the slot of require_auth=True only ever holds a client that
\* was created with a JWT, so such a call never returns an anonymous one.
C21_ClientCachedPerSlot ==
    [][LET require_auth == flask_out'.require_auth
           cache_key == CacheKey(require_auth)
           other_key == CacheKey(~require_auth)
       IN  /\ flask_g[cache_key] # 0
                => /\ flask_out'.kind = "return"
                   /\ flask_out'.client = flask_g[cache_key]
                   /\ flask_clients' = flask_clients
                   /\ flask_g' = flask_g
           /\ (flask_g[cache_key] = 0 /\ flask_out'.kind = "return")
                => /\ Len(flask_clients') = Len(flask_clients) + 1
                   /\ SubSeq(flask_clients', 1, Len(flask_clients)) = flask_clients
                   /\ flask_out'.client = Len(flask_clients')
                   /\ flask_g'[cache_key] = flask_out'.client
                   /\ flask_g'[other_key] = flask_g[other_key]
           /\ (require_auth /\ flask_out'.kind = "return")
                => /\ flask_clients'[flask_out'.client].kind = "auth"
                   /\ ~Falsy(flask_clients'[flask_out'.client].jwt)
      ]_flaskVars

\* both slots are filled and the last call, with require_auth=True, was
\* answered from g with the client created first
C21_Witness ==
    /\ Len(flask_clients) = 2
    /\ flask_g.supabase_client_auth = 1 /\ flask_g.supabase_client = 2
    /\ flask_out.kind = "return" /\ flask_out.require_auth
    /\ flask_out.client = 1

(***************************************************************************)
(* Properties of the Django helper                                         *)
(***************************************************************************)
\* what each token source of the request holds, in the order of the claim:
\* "Bearer " header, session key supabase_jwt, cookie sb-access-token
SourceTokens(req) ==
    << IF req.auth_header.prefix = "Bearer " THEN req.auth_header.rest ELSE NoCookie,
       IF req.has_session THEN req.session_jwt ELSE NoCookie,
       req.cookie >>
Supplying(req) == {i \in 1..3 : SourceTokens(req)[i] \notin {NoCookie, ""}}
FirstSupplied(req) ==
    SourceTokens(req)[CHOOSE i \in Supplying(req) : \A j \in Supplying(req) : i <= j]

\* C22: Django get_supabase_client(require_auth=True) creates the
\* authenticated client with the token of the first source that supplies
\* one (header, session, cookie); when none does it raises ValueError "No JWT
\* token found" and no authenticated client exists; with require_auth=False
\* it creates an anonymous client and reads no token source.
C22_DjangoTokenOrder ==
    LET req == django_request
        out == django_out
    IN  out.kind # "none" =>
          /\ (out.require_auth /\ Supplying(req) # {} /\ req.env_ok)
                => /\ out.kind = "return"
                   /\ out.client = Len(django_clients)
                   /\ django_clients[out.client] = AuthClient(FirstSupplied(req))
          /\ (out.require_auth /\ Supplying(req) = {})
                => /\ out.kind = "raise"
                   /\ out.error = [type |-> "ValueError", msg |-> NoJwtMessage]
          /\ \A i \in 1..Len(django_clients) :
                django_clients[i].kind = "auth"
                    => /\ Supplying(req) # {}
                       /\ django_clients[i].jwt = FirstSupplied(req)
          /\ (~out.require_auth)
                => /\ out.reads = <<>>
                   /\ req.env_ok => /\ out.kind = "return"
                                    /\ django_clients[out.client] = AnonClient
          /\ Len(django_clients) <= django_calls

\* the header is not a Bearer header, session and cookie both hold a token,
\* and the client was made with the session's
C22_Witness ==
    /\ django_request.auth_header.prefix # "Bearer "
    /\ django_request.has_session /\ django_request.session_jwt = "jwt-s"
    /\ django_request.cookie = "jwt-c"
    /\ django_out.kind = "return" /\ django_out.require_auth
    /\ django_clients[django_out.client].jwt = "jwt-s"
    /\ django_out.reads = <<"header", "session">>

(***************************************************************************)
(* Properties of the client factory                                        *)
(***************************************************************************)
\* C23: create_client(url=U, anon_key=K) constructs the underlying client
\* with exactly (U, K), whatever the environment variables hold.
C23_ExplicitPairOverridesEnv ==
    (/\ cc_out # NotCreated
     /\ cc_args.url = "https://custom.supabase.co"
     /\ cc_args.anon_key = "custom-key"
     /\ cc_args.service_role_key = None)
        => cc_out = ClientCreated("https://custom.supabase.co", "custom-key")

(***************************************************************************)
(* Properties of the storage upload                                        *)
(***************************************************************************)
\* C24: when validation options are given and validate_file rejects the
\* file, upload_file raises validate_file's ValueError and the storage
\* client receives no call.
C24_RejectedFileNotUploaded ==
    (/\ up_out # NotUploaded
     /\ up_in.validation.given
     /\ ValidateFileError(up_in.file, up_in.validation) # NoError)
        => /\ up_out.kind = "raise"
           /\ up_out.error.type = "ValueError"
           /\ up_out.error = ValidateFileError(up_in.file, up_in.validation)
           /\ up_log = <<>>

\* each way of rejecting in turn: an existing path above max_size whose type
\* is allowed, an existing path within max_size of a type not listed, and a
\* missing path
C24_Witness ==
    /\ up_out.kind = "raise" /\ up_in.validation.given /\ up_in.response = "ok"
    /\ up_in.file.kind = "path" /\ up_in.file.exists
    /\ up_in.validation.max_size = 1 /\ up_in.file.size = 2
    /\ up_in.file.mime = "image/png"
    /\ up_out.error.msg = "File size exceeds limit"

C24_WitnessType ==
    /\ up_out.kind = "raise" /\ up_in.validation.given /\ up_in.response = "ok"
    /\ up_in.file.kind = "path" /\ up_in.file.exists
    /\ up_in.file.mime = "text/plain"
    /\ up_in.validation.allowed_types = AllowedTypes(TRUE, {"image/png"})
    /\ up_out.error.msg = "File type is not allowed"

C24_WitnessMissing ==
    /\ up_out.kind = "raise" /\ up_in.validation.given /\ up_in.response = "ok"
    /\ up_in.file.kind = "path" /\ ~up_in.file.exists
    /\ up_out.error.msg = "File not found"

(***************************************************************************)
(* Further properties of with_retry                                        *)
(***************************************************************************)
\* C25 as stated: in every finished run the number of sleeps is the number
\* of invocations minus one.
C25_SleepsOneLessThanInvocations ==
    \A p \in Procs :
        Done(p) => Len(inv[p].sleeps) = inv[p].calls - 1

\* C25, amended: the i-th sleep follows the i-th invocation (attempt i-1) and
\* the invocation after it is made before anything else; so while an attempt
\* is being handled and when a run that invoked the operation has finished,
\* the sleeps are one fewer than the invocations, and a run without an
\* invocation has no sleep.
C25_SleepsOnlyBetweenInvocations ==
    \A p \in Procs :
        LET sleeps == Len(inv[p].sleeps)
            calls == inv[p].calls
        IN  Started(p) =>
              /\ \A i \in 1..sleeps : inv[p].sleeps[i].after_attempt = i - 1
              /\ inv[p].pc \in {"except", "sleep"} => sleeps = calls - 1
              /\ inv[p].pc = "loop" =>
                    \/ sleeps = calls /\ InRange(inv[p].config, inv[p].attempt)
                    \/ sleeps = calls - 1 /\ ~InRange(inv[p].config, inv[p].attempt)
                    \/ sleeps = 0 /\ calls = 0 /\ ~InRange(inv[p].config, inv[p].attempt)
              /\ Done(p) => sleeps = (IF calls = 0 THEN 0 ELSE calls - 1)

\* three invocations with two sleeps between them, ended by the last
\* attempt's failure
C25_Witness ==
    \E p \in Procs :
        /\ Done(p) /\ inv[p].config.max_retries = 2
        /\ inv[p].calls = 3 /\ Len(inv[p].sleeps) = 2
        /\ inv[p].outcome.kind = "raise"

\* C26: with max_retries >= 0 (config=None gives 3), whatever the operation's
\* calls do, with_retry ends; it makes at most max_retries + 1 invocations
\* and either returns the value of the invocation that succeeded or raises
\* the error of the last invocation made.
NonNegativeBudget(p) ==
    inv[p].pc # "idle" /\ (inv[p].config.is_none \/ inv[p].config.max_retries >= 0)
WithinBudget(p) ==
    LET calls == inv[p].calls
        what == inv[p].script[calls]
    IN  /\ calls <= inv[p].config.max_retries + 1
        /\ Done(p) =>
              /\ calls >= 1
              /\ \A k \in 1..(calls - 1) : inv[p].script[k] # Ok
              /\ inv[p].outcome = IF what = Ok THEN Returned(calls)
                                  ELSE Raised(OpError(what, calls))
C26_TerminatesWithinBudget ==
    \A p \in Procs :
        /\ [](NonNegativeBudget(p) /\ Started(p) => WithinBudget(p))
        /\ NonNegativeBudget(p) ~> Done(p)

\* a run stopped before its budget of three invocations was used, by the
\* non-retryable error of its second invocation
C26_Witness ==
    \E p \in Procs :
        /\ Done(p) /\ inv[p].config.max_retries = 2 /\ inv[p].calls = 2
        /\ inv[p].script[1] = "PGRST116" /\ inv[p].script[2] = "23503"
        /\ inv[p].outcome = Raised(OpError("23503", 2))

\* C27: with max_retries < 0 with_retry never invokes the operation, never
\* sleeps, and raises the generic error "Operation failed after retries".
C27_NegativeBudgetRaisesGeneric ==
    \A p \in Procs :
        (Started(p) /\ inv[p].config.max_retries < 0)
            => /\ inv[p].calls = 0
               /\ inv[p].sleeps = <<>>
               /\ inv[p].pc \in {"loop", "done"}
               /\ Done(p) => /\ inv[p].outcome.kind = "raise"
                             /\ inv[p].outcome.error.msg = "Operation failed after retries"

C27_Witness ==
    \E p \in Procs :
        /\ Done(p) /\ inv[p].config.max_retries = -1
        /\ inv[p].script[1] = Ok
        /\ inv[p].outcome = Raised(GenericError)

\* C28: for page >= 1, limit >= 1 and total >= 0 a returned page has
\* has_next = (offset + limit < total) with offset = (page - 1) * limit, which
\* is page * limit < total; with the collaborator's exact count that is
\* exactly when the filter matches rows after the last index requested.
C28_HasNextIffRowsBeyond ==
    \A i \in 1..Len(page_out) :
        LET r == page_out[i]
            offset == (r.page - 1) * r.limit
        IN  (r.kind = "return" /\ r.page >= 1 /\ r.limit >= 1 /\ r.total >= 0)
            => /\ r.has_next = (offset + r.limit < r.total)
               /\ (r.page < Ceil(r.total, r.limit)) = (r.page * r.limit < r.total)
               /\ query.count_attr = "exact"
                     => r.has_next = (\E row \in 0..(query.total - 1) :
                                          row > range_calls[i].to)

\* the page that ends exactly at the last row has no next page, and the
\* page before it has one
C28_Witness ==
    \E i, j \in 1..Len(page_out) :
        /\ page_out[i].kind = "return" /\ page_out[j].kind = "return"
        /\ page_out[i].limit = 2 /\ page_out[i].total = 4 /\ page_out[i].page = 2
        /\ ~page_out[i].has_next
        /\ page_out[j].limit = 2 /\ page_out[j].page = 1 /\ page_out[j].has_next

(***************************************************************************)
(* Properties of _handle_payload                                           *)
(***************************************************************************)
CallsOf(name) == Cardinality({i \in 1..Len(hp_calls) : hp_calls[i] = name})
SpecificHandlers == {"on_insert", "on_update", "on_delete"}
\* the specific handler that belongs to an eventType
HandlerFor ==
    [e \in {"INSERT", "UPDATE", "DELETE"} |->
        CASE e = "INSERT" -> "on_insert" [] e = "UPDATE" -> "on_update"
          [] e = "DELETE" -> "on_delete"]
HandlerSet(name) ==
    CASE name = "on_insert" -> hp_in.config.on_insert
      [] name = "on_update" -> hp_in.config.on_update
      [] name = "on_delete" -> hp_in.config.on_delete

\* C29: for a delivered payload on_event, when set, is called exactly once
\* and first; at most one specific handler is called, and only the one that
\* belongs to the payload's eventType; when on_event is not set or has
\* returned, that handler is called exactly when it is set.
C29_PayloadRouting ==
    hp_out # NotHandled =>
        /\ CallsOf("on_event") = (IF hp_in.config.on_event THEN 1 ELSE 0)
        /\ hp_in.config.on_event => hp_calls[1] = "on_event"
        /\ Cardinality({i \in 1..Len(hp_calls) : hp_calls[i] \in SpecificHandlers}) <= 1
        /\ \A i \in 1..Len(hp_calls) :
              hp_calls[i] \in SpecificHandlers
                  => /\ hp_in.event_type \in DOMAIN HandlerFor
                     /\ hp_calls[i] = HandlerFor[hp_in.event_type]
                     /\ HandlerSet(hp_calls[i])
        /\ (/\ hp_in.event_type \in DOMAIN HandlerFor
            /\ HandlerSet(HandlerFor[hp_in.event_type])
            /\ ~(hp_in.config.on_event /\ hp_in.on_event_raises))
              => CallsOf(HandlerFor[hp_in.event_type]) = 1

\* an UPDATE payload on a configuration with every callback set
C29_Witness ==
    /\ hp_out = "return" /\ hp_in.event_type = "UPDATE"
    /\ hp_in.config.on_event /\ hp_in.config.on_insert
    /\ hp_in.config.on_update /\ hp_in.config.on_delete
    /\ hp_calls = <<"on_event", "on_update">>

(***************************************************************************)
(* Frame properties of QueryCache                                          *)
(***************************************************************************)
\* C30: a get_or_set whose operation raises lets the error out and stores
\* nothing: the entry under its key is what the lookup left (unchanged, or
\* removed when it had expired) and every other key keeps its entry;
\* invalidate(key) leaves key without an entry and every other key with the
\* entry it had.
C30_FrameEffects ==
    [][LET key == cache_out'.key
       IN  /\ (cache_out'.op = "get_or_set" /\ cache_out'.invoked = 1 /\ cache_out'.raised)
                => /\ cache_out'.result = None
                   /\ \A k \in CacheKeys \ {key} : cache'[k] = cache[k]
                   /\ cache'[key] = IF cache[key].present /\ now > cache[key].expires_at
                                    THEN NoEntry ELSE cache[key]
                   /\ cache'[key].present => cache'[key].value = None
                   /\ cache_hist' = cache_hist
           /\ cache_out'.op = "invalidate"
                => /\ cache'[key] = NoEntry
                   /\ \A k \in CacheKeys \ {key} : cache'[k] = cache[k]
      ]_cacheVars

\* the operation of get_or_set("k1", ...) has raised while "k2" holds "v2":
\* "k1" has no entry and "k2" still holds its own
C30_Witness ==
    /\ cache_out.op = "get_or_set" /\ cache_out.key = "k1"
    /\ cache_out.raised /\ cache_out.invoked = 1
    /\ ~cache["k1"].present
    /\ cache["k2"].present /\ cache["k2"].value = "v2"

====
